---- MODULE Spec2Model ----
(***************************************************************************)
(* Model of resource_game.py: a background accumulator thread (game_loop)   *)
(* and a foreground command interpreter (main / handle_command) sharing two *)
(* in-memory records, resources and villagers, each mirrored in a JSON      *)
(* file.                                                                    *)
(*                                                                          *)
(* Stockpile amounts and yield rates are scaled integers: one unit is       *)
(* 0.00001, so gold's rate 0.00004 is 4 and stone's rate 0.90 is 90000.     *)
(*                                                                          *)
(* A file is a record [st, data]: st = "record" when it holds the JSON      *)
(* document of data, "unparsable" when its bytes are not a JSON document    *)
(* (an empty file left by open(..., "w"), a partly written document),       *)
(* "unreadable" when open(..., "r") raises an OSError other than            *)
(* FileNotFoundError, and "absent" when it does not exist.                  *)
(***************************************************************************)
EXTENDS Integers, Sequences, FiniteSets, TLC

\* ------------------------------------------------------------------ bounds
\* A run has at most MaxEvents events: commands read, sleeps that end and
\* I/O operations that fail, in any mix.
MaxEvents == 4

\* --------------------------------------------------------------- constants
TOTAL_VILLAGERS == 100

RESOURCE_TYPES == <<"gold", "stone", "wood", "food">>

RESOURCE_PERCENTAGES == [gold |-> 4, stone |-> 90000, wood |-> 100, food |-> 10]

Types == {RESOURCE_TYPES[i] : i \in 1..Len(RESOURCE_TYPES)}

DefaultRecord == [gold |-> 0, stone |-> 0, wood |-> 0, food |-> 0]

\* sum(record.values())
SumValues(rec) == rec.gold + rec.stone + rec.wood + rec.food

\* ------------------------------------------------------------------- files
FileOf(rec) == [st |-> "record", data |-> rec]

AbsentFile == [st |-> "absent", data |-> DefaultRecord]

UnparsableFile == [st |-> "unparsable", data |-> DefaultRecord]

UnreadableFile == [st |-> "unreadable", data |-> DefaultRecord]

\* Records a previous run may have left behind.
StoredResources == [gold |-> 8, stone |-> 90000, wood |-> 0, food |-> 10]

StoredVillagers == [gold |-> 40, stone |-> 0, wood |-> 20, food |-> 0]

\* <<resources.json, villagers.json>> when the program starts: a first run,
\* a restart, and a restart with one file damaged or unreadable.
InitialFiles ==
    {<<AbsentFile, AbsentFile>>,
     <<FileOf(StoredResources), FileOf(StoredVillagers)>>,
     <<UnparsableFile, UnparsableFile>>,
     <<UnreadableFile, FileOf(StoredVillagers)>>,
     <<FileOf(StoredResources), UnreadableFile>>}

\* ---------------------------------------------------------------- commands
\* A command is the list command.split() returns.
GetCommand(r, c) == <<"get", r, "with", c, "villagers">>

Commands ==
    {<<>>, <<"get">>, <<"get", "gold">>, <<"get", "gold", "with">>,
     <<"status">>, <<"help">>, <<"exit">>, <<"foo">>,
     <<"GET", "Gold", "with", "10", "villagers">>,
     GetCommand("gold", "10"), GetCommand("gold", "-5"), GetCommand("gold", "abc"),
     GetCommand("stone", "50"), GetCommand("food", "40"),
     GetCommand("iron", "10"), GetCommand("iron", "abc")}

\* str.lower() on the tokens above.
Lower(tok) ==
    CASE tok = "GET" -> "get"
      [] tok = "Gold" -> "gold"
      [] OTHER -> tok

\* The characters of a count token.
Chars(tok) ==
    CASE tok = "10" -> <<"1", "0">>
      [] tok = "40" -> <<"4", "0">>
      [] tok = "50" -> <<"5", "0">>
      [] tok = "-5" -> <<"-", "5">>
      [] tok = "abc" -> <<"a", "b", "c">>

DigitVal ==
    ("0" :> 0) @@ ("1" :> 1) @@ ("2" :> 2) @@ ("3" :> 3) @@ ("4" :> 4) @@
    ("5" :> 5) @@ ("6" :> 6) @@ ("7" :> 7) @@ ("8" :> 8) @@ ("9" :> 9)

\* int(token): an optional sign followed by one or more decimal digits
\* gives the number, a token with any other character among those of Chars
\* raises ValueError (int's digit-group underscores are not among them).
Unsigned(cs) == IF cs # <<>> /\ cs[1] \in {"+", "-"} THEN Tail(cs) ELSE cs

\* Faulty variant: str.isdigit() in place of int(): a sign is not accepted.
IsInt_digitsOnly(cs) ==
    /\ cs # <<>>
    /\ \A i \in 1..Len(cs) : cs[i] \in DOMAIN DigitVal

IsInt(cs) ==
    /\ Unsigned(cs) # <<>>
    /\ \A i \in 1..Len(Unsigned(cs)) : Unsigned(cs)[i] \in DOMAIN DigitVal

RECURSIVE DigitsVal(_)
DigitsVal(ds) ==
    IF ds = <<>> THEN 0
    ELSE 10 * DigitsVal(SubSeq(ds, 1, Len(ds) - 1)) + DigitVal[ds[Len(ds)]]

IntVal(cs) ==
    IF cs[1] = "-" THEN 0 - DigitsVal(Unsigned(cs)) ELSE DigitsVal(Unsigned(cs))

\* The last line handle_command or main passed to log_message.
Msg(kind, res, num, total) == [kind |-> kind, res |-> res, num |-> num, total |-> total]

NoMsg == Msg("none", "", 0, 0)

NoAssign == <<"", 0>>

\* History of the allocation: base is the ledger when the current allocation
\* came into force, complete the number of update_resources calls completed
\* since then, and mixed tells that villagers changed after the call in
\* progress had already updated a category.
NewWindow(ledger) == [base |-> ledger, complete |-> 0, mixed |-> FALSE]

\* History of update_resources: start is the ledger as the last completed call
\* left it, credited the sum of the num_villagers the call in progress (or,
\* between calls, the last one) has read so far.
NewTick(ledger) == [start |-> ledger, credited |-> 0]

\* ------------------------------------------------------------------- state
VARIABLES
    mainPc,      \* position of the main thread
    gamePc,      \* position of the game_loop thread
    gi,          \* index into RESOURCE_TYPES of update_resources' for loop
    ticks,       \* calls of update_resources completed so far
    resources,   \* the in-memory resources dict
    villagers,   \* the in-memory villagers dict
    resFile,     \* resources.json
    vilFile,     \* villagers.json
    cmds,        \* commands read by input() so far
    assign,      \* handle_command's <<resource_type, num_villagers>> while it saves
    cmdMsg,      \* the last message of the main thread
    resSaved,    \* outcome of the last save_resources: "none", "ok", "failed"
    vilSaved,    \* outcome of the last save_villagers: "none", "ok", "failed"
    faults,      \* I/O operations of the running game that have failed so far
    launch,      \* how the process was started, and what PID_FILE holds
    tick,        \* history: the ledger after the last completed call of
                 \* update_resources, and the villagers read by the current one
    window       \* history: the ticks run since villagers last changed

vars == <<mainPc, gamePc, gi, ticks, resources, villagers, resFile, vilFile,
          cmds, assign, cmdMsg, resSaved, vilSaved, faults, launch, tick,
          window>>

mainVars == <<mainPc, villagers, vilFile, cmds, assign, cmdMsg, vilSaved, launch>>

gameVars == <<gamePc, gi, ticks, resources, resFile, resSaved, tick>>

Running == mainPc \in {"input", "save_open", "save_write", "daemon_sleep"}

WithinBudget == cmds + ticks + faults < MaxEvents

\* An I/O operation either succeeds or raises OSError.
Succeeds == UNCHANGED faults

Fails == WithinBudget /\ faults' = faults + 1

\* The command line and the state of PID_FILE at the start: daemon tells
\* "--daemon" was given, pidFile is "absent", "dead" (the pid of no process)
\* or "live" (the pid of a running instance of the game), and live remembers
\* that an instance was running when this one started.
Launch(daemon, pidFile) ==
    [daemon |-> daemon, live |-> pidFile = "live", pidFile |-> pidFile]

Launches == {Launch(d, f) : d \in BOOLEAN, f \in {"absent", "dead", "live"}}

\* Everything but the position of the main thread and the launch.
InitGame ==
    /\ gamePc = "unstarted"
    /\ gi = 1
    /\ ticks = 0
    /\ resources = DefaultRecord
    /\ villagers = DefaultRecord
    /\ \E files \in InitialFiles : resFile = files[1] /\ vilFile = files[2]
    /\ cmds = 0
    /\ assign = NoAssign
    /\ cmdMsg = NoMsg
    /\ resSaved = "none"
    /\ vilSaved = "none"
    /\ faults = 0
    /\ tick = NewTick(DefaultRecord)
    /\ window = NewWindow(DefaultRecord)

\* A foreground start without a pid file, at the call of main().
Init ==
    /\ mainPc = "ensure_data_files"
    /\ launch = Launch(FALSE, "absent")
    /\ InitGame

\* Any start, at the first line of the "__main__" block.
InitLaunch ==
    /\ mainPc = "__main__"
    /\ launch \in Launches
    /\ InitGame

\* os.kill(pid, 0): None for a process that exists, ProcessLookupError otherwise.
OsKill(pidFile) == IF pidFile = "live" THEN "None" ELSE "ProcessLookupError"

\* The test of the "__main__" block: os.kill(pid, 0) == True.
AlreadyRunning(pidFile) == pidFile # "absent" /\ OsKill(pidFile) = "True"

\* The "__main__" block. With --daemon, daemonize() forks twice without looking
\* at PID_FILE; the parent writes the pid of the first child, which exits at
\* the second fork, and the grandchild calls main(is_daemon=True); a failed
\* fork exits with status 1. Without --daemon the pid file is consulted and
\* main() is called unless the test above holds.
Start ==
    /\ mainPc = "__main__"
    /\ IF launch.daemon
       THEN \/ /\ mainPc' = "ensure_data_files"
               /\ launch' = [launch EXCEPT !.pidFile = "dead"]
            \/ /\ mainPc' = "not_started"          \* sys.exit(1)
               /\ UNCHANGED launch
       ELSE /\ mainPc' = IF AlreadyRunning(launch.pidFile)
                         THEN "not_started"         \* sys.exit(1)
                         ELSE "ensure_data_files"
            /\ UNCHANGED launch
    /\ UNCHANGED <<villagers, vilFile, cmds, assign, cmdMsg, vilSaved>>
    /\ UNCHANGED <<gameVars, faults, window>>

\* ----------------------------------------------------------------- startup
\* ensure_data_files: a file that does not exist is created with the default
\* record; when the creation fails the process exits with status 1.
Created(file) == IF file.st = "absent" THEN FileOf(DefaultRecord) ELSE file

EnsureDataFiles ==
    /\ mainPc = "ensure_data_files"
    /\ \/ /\ resFile' = Created(resFile)
          /\ vilFile' = Created(vilFile)
          /\ mainPc' = "load_resources"
       \/ /\ resFile.st = "absent"
          /\ mainPc' = "startup_failed"        \* sys.exit(1)
          /\ UNCHANGED <<resFile, vilFile>>
       \/ /\ vilFile.st = "absent"
          /\ resFile' = Created(resFile)
          /\ mainPc' = "startup_failed"        \* sys.exit(1)
          /\ UNCHANGED vilFile
    /\ UNCHANGED <<gamePc, gi, ticks, resources, villagers, resSaved>>
    /\ UNCHANGED <<cmds, assign, cmdMsg, vilSaved, faults, launch, tick, window>>

\* load_resources / load_villagers: json.load of the file;
\* FileNotFoundError and JSONDecodeError give the default record, any other
\* exception of open() is not caught and ends the process ("crashed").
LoadRaises(file) == file.st = "unreadable"

Loaded(file) == IF file.st = "record" THEN file.data ELSE DefaultRecord

LoadResources ==
    /\ mainPc = "load_resources"
    /\ IF LoadRaises(resFile)
       THEN mainPc' = "crashed" /\ UNCHANGED resources
       ELSE mainPc' = "load_villagers" /\ resources' = Loaded(resFile)
    /\ UNCHANGED <<gamePc, gi, ticks, resFile, resSaved>>
    /\ UNCHANGED <<villagers, vilFile, cmds, assign, cmdMsg, vilSaved, faults>>
    /\ UNCHANGED launch
    /\ tick' = NewTick(resources')
    /\ window' = NewWindow(resources')

\* load_villagers, followed by main's welcome messages and game_thread.start().
LoadVillagers ==
    /\ mainPc = "load_villagers"
    /\ IF LoadRaises(vilFile)
       THEN mainPc' = "crashed" /\ UNCHANGED <<villagers, gamePc>>
       ELSE /\ villagers' = Loaded(vilFile)
            /\ mainPc' = IF launch.daemon THEN "daemon_sleep" ELSE "input"
            /\ gamePc' = "update"
    /\ UNCHANGED <<gi, ticks, resources, resFile, resSaved>>
    /\ UNCHANGED <<vilFile, cmds, assign, cmdMsg, vilSaved, faults, launch, window>>
    /\ UNCHANGED tick

\* ------------------------------------------------------------- accumulator
\* Faulty variant: the gain is not clamped at zero.
Gain_unclamped(num_villagers, resource_type) ==
    num_villagers * RESOURCE_PERCENTAGES[resource_type]

\* One iteration of update_resources' for loop.
Gain(num_villagers, resource_type) ==
    LET resource_gain == num_villagers * RESOURCE_PERCENTAGES[resource_type]
    IN  IF resource_gain < 0 THEN 0 ELSE resource_gain

\* Faulty variant: the ledger is saved after each category.
UpdateStep_savesEachCategory ==
    /\ Running
    /\ gamePc = "update"
    /\ LET resource_type == RESOURCE_TYPES[gi]
           num_villagers == villagers[resource_type]
       IN  /\ resources' = [resources EXCEPT ![resource_type] =
                               @ + Gain(num_villagers, resource_type)]
           /\ tick' = [start |-> IF gi = Len(RESOURCE_TYPES) THEN resources'
                                  ELSE tick.start,
                       credited |-> (IF gi = 1 THEN 0 ELSE tick.credited)
                                        + num_villagers]
    /\ \/ /\ Succeeds
          /\ gi < Len(RESOURCE_TYPES)
          /\ gi' = gi + 1
          /\ gamePc' = "save_open"
          /\ UNCHANGED <<ticks, window>>
       \/ /\ Succeeds
          /\ gi = Len(RESOURCE_TYPES)
          /\ gi' = 1
          /\ gamePc' = "save_open"
          /\ ticks' = ticks + 1
          /\ window' = IF window.mixed THEN NewWindow(resources')
                        ELSE [window EXCEPT !.complete = @ + 1]
       \/ \* rotate_log_file raises (os.remove / os.rename): the thread ends
          /\ Fails
          /\ gamePc' = "dead"
          /\ UNCHANGED <<gi, ticks, window>>
    /\ UNCHANGED <<resFile, resSaved>>
    /\ UNCHANGED mainVars

\* update_resources, one category per step; the last one completes the call.
UpdateStep ==
    /\ Running
    /\ gamePc = "update"
    /\ LET resource_type == RESOURCE_TYPES[gi]
           num_villagers == villagers[resource_type]
       IN  /\ resources' = [resources EXCEPT ![resource_type] =
                               @ + Gain(num_villagers, resource_type)]
           /\ tick' = [start |-> IF gi = Len(RESOURCE_TYPES) THEN resources'
                                  ELSE tick.start,
                       credited |-> (IF gi = 1 THEN 0 ELSE tick.credited)
                                        + num_villagers]
    /\ \/ /\ Succeeds
          /\ gi < Len(RESOURCE_TYPES)
          /\ gi' = gi + 1
          /\ gamePc' = "update"
          /\ UNCHANGED <<ticks, window>>
       \/ /\ Succeeds
          /\ gi = Len(RESOURCE_TYPES)
          /\ gi' = 1
          /\ gamePc' = "save_open"
          /\ ticks' = ticks + 1
          /\ window' = IF window.mixed THEN NewWindow(resources')
                        ELSE [window EXCEPT !.complete = @ + 1]
       \/ \* rotate_log_file raises (os.remove / os.rename): the thread ends
          /\ Fails
          /\ gamePc' = "dead"
          /\ UNCHANGED <<gi, ticks, window>>
    /\ UNCHANGED <<resFile, resSaved>>
    /\ UNCHANGED mainVars

\* Faulty variant: save_resources without its try/except; the OSError ends the thread.
GameSaveOpen_failureKillsThread ==
    /\ Running
    /\ gamePc = "save_open"
    /\ \/ Succeeds /\ resFile' = UnparsableFile /\ gamePc' = "save_write"
          /\ UNCHANGED resSaved
       \/ Fails /\ UNCHANGED resFile /\ gamePc' = "dead" /\ resSaved' = "failed"
    /\ UNCHANGED <<gi, ticks, resources, tick, window>>
    /\ UNCHANGED mainVars

\* save_resources: open(RESOURCES_FILE, "w") truncates the file, json.dump
\* then writes the document; any exception is logged and swallowed.
GameSaveOpen ==
    /\ Running
    /\ gamePc = "save_open"
    /\ \/ Succeeds /\ resFile' = UnparsableFile /\ gamePc' = "save_write"
          /\ UNCHANGED resSaved
       \/ Fails /\ UNCHANGED resFile /\ gamePc' = "sleep" /\ resSaved' = "failed"
    /\ UNCHANGED <<gi, ticks, resources, tick, window>>
    /\ UNCHANGED mainVars

\* Faulty variant: save_resources dumps the villagers dict.
GameSaveWrite_writesVillagers ==
    /\ Running
    /\ gamePc = "save_write"
    /\ \/ Succeeds /\ resFile' = FileOf(villagers) /\ resSaved' = "ok"
       \/ Fails /\ resFile' = UnparsableFile /\ resSaved' = "failed"
    /\ gamePc' = "sleep"
    /\ UNCHANGED <<gi, ticks, resources, tick, window>>
    /\ UNCHANGED mainVars

GameSaveWrite ==
    /\ Running
    /\ gamePc = "save_write"
    /\ \/ Succeeds /\ resFile' = FileOf(resources) /\ resSaved' = "ok"
       \/ Fails /\ resFile' = UnparsableFile /\ resSaved' = "failed"
    /\ gamePc' = "sleep"
    /\ UNCHANGED <<gi, ticks, resources, tick, window>>
    /\ UNCHANGED mainVars

\* time.sleep(UPDATE_INTERVAL) returns and the while loop starts over.
Wake ==
    /\ Running
    /\ gamePc = "sleep"
    /\ WithinBudget
    /\ gamePc' = "update"
    /\ UNCHANGED <<gi, ticks, resources, resFile, resSaved, faults, tick, window>>
    /\ UNCHANGED mainVars

\* ------------------------------------------------------ command interpreter
\* log_message(...) and return to input().
Report(msg) ==
    /\ cmdMsg' = msg
    /\ UNCHANGED <<mainPc, villagers, vilFile, vilSaved, assign, window>>

\* An exception other than SystemExit leaves handle_command: main's
\* "except Exception" logs it and main returns, which ends the process.
Raise(kind) ==
    /\ cmdMsg' = Msg(kind, "", 0, 0)
    /\ mainPc' = "exited"
    /\ UNCHANGED <<villagers, vilFile, vilSaved, assign, window>>

\* Faulty variant: the check looks at the new count alone.
OverAllocated_newCountOnly(current_total_villagers, current, num_villagers) ==
    num_villagers > TOTAL_VILLAGERS

\* The workforce check of the "get" branch.
OverAllocated(current_total_villagers, current, num_villagers) ==
    current_total_villagers - current + num_villagers > TOTAL_VILLAGERS

\* Faulty variant: the two numbers of the message are swapped.
TooManyMessage_swapped(current_total_villagers) ==
    Msg("too_many", "", current_total_villagers, TOTAL_VILLAGERS)

\* "Too many villagers. You have {current_total_villagers} villagers assigned.
\* You can assign a maximum of {TOTAL_VILLAGERS}."
TooManyMessage(current_total_villagers) ==
    Msg("too_many", "", TOTAL_VILLAGERS, current_total_villagers)

\* Faulty variant: the resource name is checked before the count is parsed.
Get_resourceFirst(parts) ==
    IF Len(parts) < 3
    THEN Report(Msg("usage", "", 0, 0))
    ELSE IF Len(parts) < 4
    THEN Raise("unexpected_error")
    ELSE IF Lower(parts[2]) \notin Types
    THEN Report(Msg("invalid_resource", Lower(parts[2]), 0, 0))
    ELSE IF ~IsInt(Chars(parts[4]))
    THEN Report(Msg("invalid_number", "", 0, 0))
    ELSE LET resource_type == Lower(parts[2])
             num_villagers == IntVal(Chars(parts[4]))
             current_total_villagers == SumValues(villagers)
         IN  IF OverAllocated(current_total_villagers,
                              villagers[resource_type], num_villagers)
             THEN Report(TooManyMessage(current_total_villagers))
             ELSE /\ villagers' = [villagers EXCEPT ![resource_type] = num_villagers]
                  /\ assign' = <<resource_type, num_villagers>>
                  /\ window' = IF gamePc = "update" /\ gi > 1
                                THEN [window EXCEPT !.mixed = TRUE]
                                ELSE NewWindow(resources)
                  /\ mainPc' = "save_open"
                  /\ UNCHANGED <<vilFile, cmdMsg, vilSaved>>

\* The "get" branch of handle_command up to the assignment to villagers.
Get(parts) ==
    IF Len(parts) < 3
    THEN Report(Msg("usage", "", 0, 0))
    ELSE IF Len(parts) < 4
    THEN Raise("unexpected_error")     \* parts[3]: IndexError
    ELSE IF ~IsInt(Chars(parts[4]))
    THEN Report(Msg("invalid_number", "", 0, 0))
    ELSE LET resource_type == Lower(parts[2])
             num_villagers == IntVal(Chars(parts[4]))
             current_total_villagers == SumValues(villagers)
         IN  IF resource_type \notin Types
             THEN Report(Msg("invalid_resource", resource_type, 0, 0))
             ELSE IF OverAllocated(current_total_villagers,
                                   villagers[resource_type], num_villagers)
             THEN Report(TooManyMessage(current_total_villagers))
             ELSE /\ villagers' = [villagers EXCEPT ![resource_type] = num_villagers]
                  /\ assign' = <<resource_type, num_villagers>>
                  /\ window' = IF gamePc = "update" /\ gi > 1
                                THEN [window EXCEPT !.mixed = TRUE]
                                ELSE NewWindow(resources)
                  /\ mainPc' = "save_open"
                  /\ UNCHANGED <<vilFile, cmdMsg, vilSaved>>

\* "Current Resources: ...", "Villager Allocation: ...", "Total Gathering
\* Villagers: ...": the two dicts as json.dumps finds them, and the total.
StatusMessage ==
    [kind |-> "status", res |-> "", num |-> 0, total |-> SumValues(villagers),
     resources |-> resources, villagers |-> villagers]

\* Faulty variant: the message does not name the token.
UnknownMessage_noToken(action) == Msg("unknown", "", 0, 0)

\* "Unknown command: {action}. Type 'help' for available commands."
UnknownMessage(action) == Msg("unknown", action, 0, 0)

\* input() returns a line and handle_command runs on it.
HandleCommand(parts) ==
    /\ mainPc = "input"
    /\ WithinBudget
    /\ cmds' = cmds + 1
    /\ IF parts = <<>>
       THEN UNCHANGED <<mainPc, villagers, vilFile, cmdMsg, vilSaved, assign, window>>
       ELSE LET action == Lower(parts[1])
            IN  CASE action = "get" -> Get(parts)
                  [] action = "status" -> Report(StatusMessage)
                  [] action = "help" -> Report(Msg("help", "", 0, 0))
                  [] action = "exit" ->
                        /\ cmdMsg' = Msg("exiting", "", 0, 0)
                        /\ mainPc' = "exited"       \* sys.exit(0)
                        /\ UNCHANGED <<villagers, vilFile, vilSaved, assign, window>>
                  [] OTHER -> Report(UnknownMessage(action))
    /\ UNCHANGED <<gameVars, faults, launch>>

Command == \E parts \in Commands : HandleCommand(parts)

\* save_villagers(villagers) and the confirmation that follows it.
Confirmation == Msg("set", assign[1], assign[2], 0)

\* Faulty variant: save_villagers opens RESOURCES_FILE.
MainSaveOpen_opensResourcesFile ==
    /\ mainPc = "save_open"
    /\ \/ Succeeds /\ resFile' = UnparsableFile /\ mainPc' = "save_write"
          /\ UNCHANGED <<vilSaved, cmdMsg, assign>>
       \/ Fails /\ UNCHANGED resFile /\ mainPc' = "input"
          /\ vilSaved' = "failed" /\ cmdMsg' = Confirmation /\ assign' = NoAssign
    /\ UNCHANGED <<villagers, vilFile, cmds, launch, window>>
    /\ UNCHANGED <<gamePc, gi, ticks, resources, resSaved, tick>>

\* open(VILLAGERS_FILE, "w") of save_villagers.
MainSaveOpen ==
    /\ mainPc = "save_open"
    /\ \/ Succeeds /\ vilFile' = UnparsableFile /\ mainPc' = "save_write"
          /\ UNCHANGED <<vilSaved, cmdMsg, assign>>
       \/ Fails /\ UNCHANGED vilFile /\ mainPc' = "input"
          /\ vilSaved' = "failed" /\ cmdMsg' = Confirmation /\ assign' = NoAssign
    /\ UNCHANGED <<villagers, cmds, launch, window>>
    /\ UNCHANGED gameVars

\* Faulty variant: save_villagers dumps the resources dict.
MainSaveWrite_writesResources ==
    /\ mainPc = "save_write"
    /\ \/ Succeeds /\ vilFile' = FileOf(resources) /\ vilSaved' = "ok"
       \/ Fails /\ vilFile' = UnparsableFile /\ vilSaved' = "failed"
    /\ mainPc' = "input"
    /\ cmdMsg' = Confirmation
    /\ assign' = NoAssign
    /\ UNCHANGED <<villagers, cmds, launch, window>>
    /\ UNCHANGED gameVars

\* json.dump(villagers, f) into the file MainSaveOpen has opened.
MainSaveWrite ==
    /\ mainPc = "save_write"
    /\ \/ Succeeds /\ vilFile' = FileOf(villagers) /\ vilSaved' = "ok"
       \/ Fails /\ vilFile' = UnparsableFile /\ vilSaved' = "failed"
    /\ mainPc' = "input"
    /\ cmdMsg' = Confirmation
    /\ assign' = NoAssign
    /\ UNCHANGED <<villagers, cmds, launch, window>>
    /\ UNCHANGED gameVars

\* KeyboardInterrupt in the main thread of a foreground game: the farewell is
\* logged, main returns and the process ends, taking the daemon thread with it.
Interrupt ==
    /\ mainPc \in {"input", "save_open", "save_write"}
    /\ mainPc' = "exited"
    /\ cmdMsg' = Msg("interrupted", "", 0, 0)
    /\ UNCHANGED <<villagers, vilFile, cmds, assign, vilSaved, launch, window>>
    /\ UNCHANGED <<gameVars, faults>>

Next ==
    \/ EnsureDataFiles
    \/ LoadResources
    \/ LoadVillagers
    \/ UpdateStep
    \/ GameSaveOpen
    \/ GameSaveWrite
    \/ Wake
    \/ Command
    \/ MainSaveOpen
    \/ MainSaveWrite
    \/ Interrupt

Spec == Init /\ [][Next]_vars

\* The game from the command line on, in either mode and with any pid file.
NextLaunch == Start \/ Next

SpecLaunch == InitLaunch /\ [][NextLaunch]_vars

\* ================================================================== claims
\* What the count tokens of Commands denote: the integers among them, with
\* their values.
IntegerTokens == ("10" :> 10) @@ ("40" :> 40) @@ ("50" :> 50) @@ ("-5" :> -5)

IsGet(parts) == parts # <<>> /\ Lower(parts[1]) = "get"

\* C1: in every reachable state the villager counts of the four categories
\* sum to at most TOTAL_VILLAGERS.
C1_TotalWithinWorkforce == SumValues(villagers) <= TOTAL_VILLAGERS

\* Two accepted gets, a tick between or after them, the whole workforce assigned.
C1_Witness ==
    /\ cmdMsg.kind = "set"
    /\ ticks >= 1
    /\ SumValues(villagers) = TOTAL_VILLAGERS

\* C2: in every reachable state every category's villager count is
\* non-negative, whatever get commands were given.
C2_CountsNonNegative == \A c \in Types : villagers[c] >= 0

\* C3: a get for a valid resource with an integer count that would bring the
\* total above TOTAL_VILLAGERS changes neither the in-memory allocation nor
\* villagers.json, reports the over-allocation error with the current total
\* and the maximum, and leaves both threads where they were.
C3_OverAllocating(parts) ==
    /\ IsGet(parts)
    /\ Len(parts) >= 4
    /\ Lower(parts[2]) \in Types
    /\ parts[4] \in DOMAIN IntegerTokens
    /\ SumValues(villagers) - villagers[Lower(parts[2])] + IntegerTokens[parts[4]]
          > TOTAL_VILLAGERS

C3_OverAllocationRejected ==
    [][\A parts \in Commands :
          HandleCommand(parts) /\ C3_OverAllocating(parts) =>
              /\ villagers' = villagers
              /\ vilFile' = vilFile
              /\ cmdMsg'.kind = "too_many"
              /\ cmdMsg'.total = SumValues(villagers)
              /\ cmdMsg'.num = TOTAL_VILLAGERS
              /\ mainPc' = "input"
              /\ gamePc' = gamePc]_vars

\* `get stone with 50 villagers` with 60 villagers elsewhere has been rejected.
C3_Witness ==
    /\ cmdMsg.kind = "too_many"
    /\ cmdMsg.total = 60
    /\ villagers = StoredVillagers
    /\ mainPc = "input"

\* C4: every get command of one, two or three tokens reports the usage error,
\* changes no record in memory or on disk, and leaves the interpreter and the
\* accumulator running.
C4_TooFewTokensUsageError ==
    [][\A parts \in Commands :
          HandleCommand(parts) /\ IsGet(parts) /\ Len(parts) <= 3 =>
              /\ cmdMsg'.kind = "usage"
              /\ villagers' = villagers
              /\ resources' = resources
              /\ vilFile' = vilFile
              /\ resFile' = resFile
              /\ mainPc' = "input"
              /\ gamePc' = gamePc]_vars

\* C5: a get is accepted exactly when it names one of the four categories,
\* its count token is an integer, and the total with that category's count
\* replaced stays within TOTAL_VILLAGERS; an accepted get sets exactly that
\* category's count and leaves the other counts and the ledger unchanged, a
\* get that is not accepted leaves the allocation unchanged.
C5_Acceptable(parts) ==
    /\ Len(parts) >= 4
    /\ Lower(parts[2]) \in Types
    /\ parts[4] \in DOMAIN IntegerTokens
    /\ SumValues(villagers) - villagers[Lower(parts[2])] + IntegerTokens[parts[4]]
          <= TOTAL_VILLAGERS

C5_GetAcceptedIff ==
    [][\A parts \in Commands :
          HandleCommand(parts) /\ IsGet(parts) =>
              IF C5_Acceptable(parts)
              THEN /\ mainPc' = "save_open"
                   /\ villagers' = [villagers EXCEPT
                                       ![Lower(parts[2])] = IntegerTokens[parts[4]]]
                   /\ resources' = resources
              ELSE /\ mainPc' # "save_open"
                   /\ villagers' = villagers
                   /\ cmdMsg'.kind # "set"]_vars

\* From the all-zero allocation, `get gold with 10 villagers` was confirmed.
C5_Witness ==
    /\ cmdMsg = Msg("set", "gold", 10, 0)
    /\ villagers = [gold |-> 10, stone |-> 0, wood |-> 0, food |-> 0]

\* C6: no step of the process lowers the in-memory stockpile of any category.
C6_LedgerNeverDecreases ==
    [][\A c \in Types : resources'[c] >= resources[c]]_vars

\* A whole tick has run with a negative count on gold.
C6_Witness ==
    /\ window.complete >= 1
    /\ villagers.gold < 0
    /\ gamePc = "sleep"

\* C7: between two ticks, when N calls of update_resources have completed
\* since the allocation last changed, every category's stockpile is its
\* value at that change plus N * villagers[c] * rate[c].
C7_FixedAllocationTicks ==
    gamePc \in {"save_open", "save_write", "sleep"} =>
        \A c \in Types :
            resources[c] = window.base[c]
                + window.complete * villagers[c] * RESOURCE_PERCENTAGES[c]

\* C8: once the process has ended through exit or an interrupt, what a
\* restart loads from the two files is the ledger and the allocation that
\* were in memory at the end.
C8_Ended == mainPc = "exited" /\ cmdMsg.kind \in {"exiting", "interrupted"}

C8_RestartLoadsMemory ==
    C8_Ended => Loaded(resFile) = resources /\ Loaded(vilFile) = villagers

\* C8 as amended: the loaded ledger is the in-memory one when the process
\* ended while the accumulator slept after a save_resources that succeeded,
\* the loaded allocation is the in-memory one when no save_villagers was
\* under way and the last one, if any, did not fail.
C8_RestartLoadsLastSave ==
    C8_Ended =>
        /\ gamePc = "sleep" /\ resSaved = "ok" => Loaded(resFile) = resources
        /\ assign = NoAssign /\ vilSaved # "failed" => Loaded(vilFile) = villagers

\* Interrupted between two ticks, after a tick and a get were both saved.
C8_Witness ==
    /\ C8_Ended
    /\ gamePc = "sleep"
    /\ resSaved = "ok"
    /\ vilSaved = "ok"
    /\ assign = NoAssign
    /\ resources # Loaded(FileOf(StoredResources))
    /\ resources # DefaultRecord

\* C9: load_resources and load_villagers never end the process: on a file
\* that is absent, unparsable or unreadable they return the default record
\* and startup goes on.
C9_LoadNeverFatal ==
    [][/\ mainPc = "load_resources" /\ resFile.st # "record" =>
            mainPc' = "load_villagers" /\ resources' = DefaultRecord
       /\ mainPc = "load_villagers" /\ vilFile.st # "record" =>
            mainPc' = "input" /\ villagers' = DefaultRecord]_vars

\* C10: a save that fails changes neither in-memory record and stops neither
\* thread, and a save that succeeds leaves the file equal to the in-memory
\* record.
C10_GameSaveFails ==
    /\ gamePc \in {"save_open", "save_write"}
    /\ faults' = faults + 1
    /\ mainPc' = mainPc

C10_MainSaveFails ==
    /\ mainPc \in {"save_open", "save_write"}
    /\ faults' = faults + 1
    /\ mainPc' # mainPc

C10_FailingSaveHarmless ==
    [][/\ C10_GameSaveFails =>
            /\ resources' = resources /\ villagers' = villagers
            /\ gamePc' = "sleep" /\ resSaved' = "failed"
       /\ C10_MainSaveFails =>
            /\ resources' = resources /\ villagers' = villagers
            /\ mainPc' = "input" /\ vilSaved' = "failed"
            /\ gamePc' = gamePc
       /\ gamePc = "save_write" /\ gamePc' = "sleep" /\ resSaved' = "ok" =>
            resFile' = FileOf(resources')
       /\ mainPc = "save_write" /\ mainPc' = "input" /\ vilSaved' = "ok" =>
            vilFile' = FileOf(villagers')]_vars

\* save_resources failed after one tick and succeeded after the next.
C10_Witness ==
    /\ faults >= 1
    /\ ticks >= 2
    /\ vilSaved = "none"
    /\ gamePc = "sleep"
    /\ resSaved = "ok"
    /\ resFile = FileOf(resources)

\* C11: when an instance of the game is running and PID_FILE holds its pid, a
\* second start, with or without --daemon, ends in the "__main__" block: it
\* never reaches ensure_data_files, the loads, a tick or a save.
C11_SecondStartRefused == launch.live => mainPc \in {"__main__", "not_started"}

\* C12: status, help, an unrecognized keyword and an empty line change neither
\* the in-memory ledger and allocation nor resources.json and villagers.json,
\* and leave both threads where they were; the unrecognized keyword is answered
\* with the unknown-command message, which names the token and points to help.
C12_Inert == {<<>>, <<"status">>, <<"help">>, <<"foo">>}

C12_InertCommands ==
    [][\A parts \in C12_Inert : HandleCommand(parts) =>
          /\ UNCHANGED <<resources, villagers, resFile, vilFile>>
          /\ UNCHANGED <<gamePc, gi, ticks>>
          /\ mainPc' = "input"
          /\ parts = <<>> => cmdMsg' = cmdMsg
          /\ parts = <<"foo">> =>
                cmdMsg' = [kind |-> "unknown", res |-> "foo", num |-> 0, total |-> 0]]_vars

\* "foo" was typed while the accumulator was in the middle of a tick, with
\* villagers assigned and a ledger that has grown.
C12_Witness ==
    /\ cmdMsg = [kind |-> "unknown", res |-> "foo", num |-> 0, total |-> 0]
    /\ mainPc = "input"
    /\ gamePc = "update" /\ gi > 1
    /\ SumValues(villagers) > 0
    /\ resFile.st = "record"

\* C13: the ledger a status command reports is the ledger as a completed call
\* of update_resources left it (or as it was loaded), never one in which only
\* some categories have received the gain of the call in progress.
C13_StatusNeverTorn ==
    [][HandleCommand(<<"status">>) =>
          /\ cmdMsg'.kind = "status"
          /\ cmdMsg'.resources = tick.start]_vars

\* C14: resources.json and villagers.json are only ever replaced as a whole:
\* a file that holds a complete record holds a complete record after every
\* step, also while a save is under way and after a save that failed part-way.
C14_ReplacedAsAWhole ==
    [][/\ resFile.st = "record" => resFile'.st = "record"
       /\ vilFile.st = "record" => vilFile'.st = "record"]_vars

\* C15: while game_loop sleeps after a save_resources that succeeded,
\* resources.json holds the in-memory ledger; while the main thread waits for
\* input after a get whose save_villagers succeeded, villagers.json holds the
\* in-memory allocation.
C15_DurableAgreesWithMemory ==
    /\ gamePc = "sleep" /\ resSaved = "ok" => resFile = [st |-> "record", data |-> resources]
    /\ mainPc = "input" /\ cmdMsg.kind = "set" /\ vilSaved = "ok"
          => vilFile = [st |-> "record", data |-> villagers]

\* Both at once: the accumulator sleeps after a tick that raised the ledger
\* and the interpreter is back at the prompt after an accepted get.
C15_Witness ==
    /\ gamePc = "sleep" /\ resSaved = "ok" /\ ticks >= 1
    /\ \E c \in Types : resources[c] > StoredResources[c]
    /\ mainPc = "input" /\ cmdMsg.kind = "set" /\ vilSaved = "ok"
    /\ SumValues(villagers) > 0

\* C16: game_loop writes resources.json only after update_resources has gone
\* through all four categories: every record it writes is the ledger as a
\* completed call left it, and the for loop is at its start again.
C16_SavesWholeTicks ==
    [][gamePc = "save_write" /\ resFile'.st = "record" =>
          /\ gi = 1
          /\ ticks >= 1
          /\ resFile'.data = tick.start]_vars

\* The second tick has been saved, and it raised the ledger.
C16_Witness ==
    /\ gamePc = "sleep" /\ resSaved = "ok" /\ ticks >= 2
    /\ resFile.st = "record" /\ resFile.data = tick.start
    /\ tick.credited > 0

\* C17: while the process is alive (the main thread reads commands, saves or,
\* as a daemon, sleeps) the game_loop thread has not been ended by an
\* exception raised inside a tick.
C17_AccumulatorNeverStops ==
    mainPc \in {"input", "save_open", "save_write", "daemon_sleep"} => gamePc # "dead"

\* C18: a step of the command interpreter (a command, its save, Ctrl-C)
\* changes neither the in-memory ledger nor resources.json, and a step of the
\* accumulator (a category of a tick, its save, the wake-up) changes neither
\* the in-memory allocation nor villagers.json.
C18_OneWriterPerRecord ==
    [][/\ /\ mainPc \in {"input", "save_open", "save_write"}
          /\ mainPc' # mainPc \/ cmds' # cmds \/ cmdMsg' # cmdMsg \/ vilFile' # vilFile
          => UNCHANGED <<resources, resFile>>
       /\ /\ gamePc \in {"update", "save_open", "save_write", "sleep"}
          /\ gamePc' # gamePc \/ gi' # gi \/ resFile' # resFile
          => UNCHANGED <<villagers, vilFile>>]_vars

\* Both writers at work: an accepted get and a completed tick are being saved
\* at the same time.
C18_Witness ==
    /\ mainPc = "save_write" /\ vilFile = UnparsableFile
    /\ gamePc = "save_write" /\ resFile = UnparsableFile
    /\ tick.credited > 0

\* A get of at least four tokens whose resource name is none of the four.
C19_InvalidResource(parts) ==
    /\ IsGet(parts)
    /\ Len(parts) >= 4
    /\ Lower(parts[2]) \notin Types

\* Such a get takes no action: allocation, ledger, both files and both threads
\* stay as they were.
C19_NoAction ==
    /\ UNCHANGED <<villagers, resources, vilFile, resFile>>
    /\ UNCHANGED <<gamePc, gi, ticks>>
    /\ mainPc' = "input"

\* C19 as stated: every get of at least four tokens whose resource name is
\* none of the four reports the invalid-resource error and takes no action,
\* whatever its count token is.
C19_InvalidResourceAlways ==
    [][\A parts \in Commands :
          HandleCommand(parts) /\ C19_InvalidResource(parts) =>
              /\ C19_NoAction
              /\ cmdMsg'.kind = "invalid_resource"]_vars

\* C19 as the code has it: such a get takes no action; it reports the
\* invalid-resource error, naming the resource, when its count token is an
\* integer, and the invalid-number error when it is not.
C19_InvalidResourceAfterCount ==
    [][\A parts \in Commands :
          HandleCommand(parts) /\ C19_InvalidResource(parts) =>
              /\ C19_NoAction
              /\ cmdMsg' = IF parts[4] \in DOMAIN IntegerTokens
                           THEN [kind |-> "invalid_resource", res |-> Lower(parts[2]),
                                 num |-> 0, total |-> 0]
                           ELSE [kind |-> "invalid_number", res |-> "",
                                 num |-> 0, total |-> 0]]_vars

\* `get iron with 10 villagers` was answered while villagers were assigned and
\* a tick had run.
C19_Witness ==
    /\ cmdMsg = [kind |-> "invalid_resource", res |-> "iron", num |-> 0, total |-> 0]
    /\ mainPc = "input"
    /\ SumValues(villagers) > 0
    /\ ticks >= 1

\* C20: the villager counts one call of update_resources reads for the four
\* categories sum to at most TOTAL_VILLAGERS, also when get commands are
\* applied while the call is in progress.
C20_TickCreditsWithinWorkforce == tick.credited <= TOTAL_VILLAGERS
====
